---- MODULE Spec2Model ----
(***************************************************************************)
(* The embedding-backed retrieval subsystem of business-architect:         *)
(* backend/core/vector_manager.py (VectorManager), the VectorEmbedding     *)
(* table of backend/core/models.py and the signal handlers of              *)
(* backend/core/signals.py that drive it.                                  *)
(*                                                                         *)
(* A FAISS IndexFlatIP is a sequence of vectors; position p of the code    *)
(* (0-based) is element p+1 of the sequence.  Similarity scores are inner  *)
(* products of vectors of length Unit, so a score of Unit*Unit is 1.0.     *)
(***************************************************************************)
EXTENDS Integers, Sequences, FiniteSets, TLC

\* ------------------------------------------------------------------ bounds
\* Cap on the number of vectors held by all in-memory indexes together.
MaxVectors == 2
\* The same cap while two threads interleave.
MaxThreadVectors == 2
MaxLevel == 6

\* --------------------------------------------------------------- constants
\* VectorEmbedding.CONTENT_TYPE_CHOICES
ContentTypes == {"CAPABILITY", "BUSINESS_GOAL", "RECOMMENDATION"}
\* the content_types list of _load_indexes
IndexKeys == {"capabilities", "business_goals", "recommendations"}
\* content types the modelled calls are made with
CallTypes == {"CAPABILITY", "BUSINESS_GOAL"}
\* a content type string that is none of the choices and maps to no index
UnknownType == "UNKNOWN"
\* a content type string that is none of the choices and is the name of an
\* index
IndexNamedType == "capabilities"
\* object ids the calls are made with: two UUIDs and one string that is no UUID
Uuids == {"u1", "u2"}
ObjectIds == Uuids \cup {"c1"}
\* texts the calls are made with; " " is empty after strip()
Texts == {"a", "b", " "}
\* texts a source entity can carry (name/title and description are validated
\* non-blank by full_clean, and the text joins them with a space)
EntityTexts == {"a", "b"}
\* length of a normalised vector: 1.0 is Unit
Unit == 10
\* search_similar's default threshold 0.7, in units of 1/(Unit*Unit)
DefaultThreshold == 70
\* k and threshold values search_similar is called with
Ks == {1, 2}
Thresholds == {0, 60, DefaultThreshold}

\* what os.path.exists and faiss.read_index find at an index path: no file,
\* a file that faiss.write_index did not finish writing, or a written index
NoFile == [file |-> "none", vectors |-> <<>>]
Torn == [file |-> "torn", vectors |-> <<>>]
NoEntity == "NONE"

\* ------------------------------------------------------- content type keys
\* str.lower() on the content types used
Lower(ct) ==
    CASE ct = "CAPABILITY" -> "capability"
      [] ct = "BUSINESS_GOAL" -> "business_goal"
      [] ct = "RECOMMENDATION" -> "recommendation"
      [] ct = UnknownType -> "unknown"
      [] OTHER -> ct

\* str.endswith('s') on the lowered names used
EndsWithS(s) == s \in {"capabilities", "business_goals", "recommendations"}

\* the "Convert content_type to index key" block of add_vector, search_similar
\* and rebuild_index
IndexKey(ct) ==
    LET generic == IF ~EndsWithS(Lower(ct)) THEN Lower(ct) \o "s" ELSE Lower(ct)
    IN  IF ct = "BUSINESS_GOAL" THEN "business_goals"
        ELSE IF ct = "RECOMMENDATION" THEN "recommendations"
        ELSE IF ct = "CAPABILITY" THEN "capabilities"
        ELSE generic

\* ---------------------------------------------------------------- embedder
NoStrip(t) == t

\* text.strip()
Strip(t) ==
    CASE t = " " -> ""
      [] t = " a" -> "a"
      [] OTHER -> t

\* the embedding service, stubbed deterministically: result['embedding']
RawEmbedding(t) ==
    CASE t = "a" -> <<3, 0>>
      [] t = "b" -> <<3, 4>>
      [] OTHER -> <<0, 5>>

Dot(v, w) == v[1] * w[1] + v[2] * w[2]

\* np.linalg.norm
Norm(v) == CHOOSE n \in 0..Unit : n * n = Dot(v, v)

\* embedding / np.linalg.norm(embedding), in units of 1/Unit
Normalize(v) == <<(v[1] * Unit) \div Norm(v), (v[2] * Unit) \div Norm(v)>>

EmbedWithFallback(text, serviceUp) ==
    LET t == Strip(text)
    IN  IF t = "" THEN [ok |-> FALSE, vec |-> <<0, 0>>]
        ELSE IF ~serviceUp THEN [ok |-> TRUE, vec |-> <<0, Unit>>]
        ELSE [ok |-> TRUE, vec |-> Normalize(RawEmbedding(t))]

\* generate_embedding: raises (ok = FALSE) on empty text and when the service
\* call fails
GenerateEmbedding(text, serviceUp) ==
    LET t == Strip(text)
    IN  IF t = "" \/ ~serviceUp
        THEN [ok |-> FALSE, vec |-> <<0, 0>>]
        ELSE [ok |-> TRUE, vec |-> Normalize(RawEmbedding(t))]

Vectors == {Normalize(RawEmbedding(t)) : t \in EntityTexts}

\* ------------------------------------------------------------ record store
\* a VectorEmbedding row
Row(ct, oid, vi, text) ==
    [content_type |-> ct, object_id |-> oid, vector_index |-> vi,
     text_content |-> text]

\* UUIDField.to_python: a string that is no UUID raises ValidationError
IsUuid(oid) == oid \in Uuids

ObjectConstraintOnly(rows, old, row) ==
    \A r \in rows \ old :
        ~(r.content_type = row.content_type /\ r.object_id = row.object_id)

\* VectorEmbedding.Meta.constraints, for the table with `row` in place of the
\* rows `old`
ConstraintsAllow(rows, old, row) ==
    \A r \in rows \ old :
        /\ ~(r.content_type = row.content_type /\ r.object_id = row.object_id)
        /\ ~(r.content_type = row.content_type /\ r.vector_index = row.vector_index)

CreateOnly(rows, ct, oid, vi, text, dbUp) ==
    LET row == Row(ct, oid, vi, text)
    IN  IF ~dbUp \/ ~IsUuid(oid) \/ ~ConstraintsAllow(rows, {}, row)
        THEN [ok |-> FALSE, recs |-> rows]
        ELSE [ok |-> TRUE, recs |-> rows \cup {row}]

UpdateKeepsPosition(rows, ct, oid, vi, text, dbUp) ==
    LET old == {r \in rows : r.content_type = ct /\ r.object_id = oid}
        at  == IF old = {} THEN vi ELSE (CHOOSE r \in old : TRUE).vector_index
        row == Row(ct, oid, at, text)
    IN  IF ~dbUp \/ ~IsUuid(oid) \/ ~ConstraintsAllow(rows, old, row)
        THEN [ok |-> FALSE, recs |-> rows]
        ELSE [ok |-> TRUE, recs |-> (rows \ old) \cup {row}]

\* objects.update_or_create(content_type, object_id, defaults) inside
\* transaction.atomic(): the row of the key is updated, or a row is created;
\* a failure rolls back and raises
UpdateOrCreate(rows, ct, oid, vi, text, dbUp) ==
    LET old == {r \in rows : r.content_type = ct /\ r.object_id = oid}
        row == Row(ct, oid, vi, text)
    IN  IF ~dbUp \/ ~IsUuid(oid) \/ ~ConstraintsAllow(rows, old, row)
        THEN [ok |-> FALSE, recs |-> rows]
        ELSE [ok |-> TRUE, recs |-> (rows \ old) \cup {row}]

DeleteNothing(rows, ct, oid) == rows

\* objects.filter(content_type, object_id).first() and delete()
DeleteRecord(rows, ct, oid) ==
    {r \in rows : ~(r.content_type = ct /\ r.object_id = oid)}

DeleteNoRecords(rows, ct) == rows

DeleteAllRecords(rows, ct) == {}

\* objects.filter(content_type=content_type).delete()
DeleteRecordsOf(rows, ct) == {r \in rows : r.content_type # ct}

\* ------------------------------------------------------------- persistence
WrittenWithoutLast(ixk) ==
    [file |-> "whole", vectors |-> SubSeq(ixk, 1, Len(ixk) - 1)]

\* the file faiss.write_index leaves when it completes
WrittenFile(ixk) == [file |-> "whole", vectors |-> ixk]

\* _save_indexes: every in-memory index is written to its file; a write that
\* fails is logged and skipped
SaveIndexes(ix, dk, failing) ==
    [k \in IndexKeys |-> IF k \in failing THEN dk[k] ELSE WrittenFile(ix[k])]

\* the order in which _save_indexes walks self.indexes: the order in which
\* _load_indexes inserted the keys
KeyOrder == <<"capabilities", "business_goals", "recommendations">>

KeyPosition(k) == CHOOSE i \in 1..Len(KeyOrder) : KeyOrder[i] = k

\* _save_indexes cut short by the death of the process while
\* faiss.write_index writes the file of index k: write_index opens the live
\* file for writing and fills it in place, so the files walked before k are
\* written, the file of k is incomplete and the files after k are untouched
SaveIndexesUntil(ix, dk, k) ==
    [j \in IndexKeys |->
        IF KeyPosition(j) < KeyPosition(k) THEN WrittenFile(ix[j])
        ELSE IF j = k THEN Torn
        ELSE dk[j]]

LoadNothing(dk) == [k \in IndexKeys |-> <<>>]

\* _load_indexes: the file's index when it exists and faiss.read_index reads
\* it, a new empty index when there is no file or read_index raises
LoadIndexes(dk) ==
    [k \in IndexKeys |-> IF dk[k].file = "whole" THEN dk[k].vectors ELSE <<>>]

\* --------------------------------------------------------- source entities
\* Capability.STATUS_CHOICES and BusinessGoal.STATUS_CHOICES, the values used
Statuses(ct) ==
    IF ct = "CAPABILITY" THEN {"CURRENT", "DEPRECATED"} ELSE {"PENDING_ANALYSIS"}

\* the filter of rebuild_index: Capability status CURRENT or PROPOSED, every
\* BusinessGoal and CapabilityRecommendation
Enumerated(en, ct) ==
    IF ct = "CAPABILITY"
    THEN {o \in Uuids : en[ct][o] \in {"CURRENT", "PROPOSED"}}
    ELSE {o \in Uuids : en[ct][o] # NoEntity}

AlwaysRelated(en, r) == "CURRENT"

\* VectorEmbedding.related_object: the entity of the row, None when it is gone
RelatedObject(en, r) ==
    IF r.content_type \in ContentTypes /\ r.object_id \in Uuids
    THEN en[r.content_type][r.object_id]
    ELSE NoEntity

\* ------------------------------------------------------------------- state
VARIABLES
    idx,    \* self.indexes: index key -> the vectors of the in-memory index
    recs,   \* the VectorEmbedding table
    disk,   \* vector_storage/<key>.faiss: the file of each index
    ent,    \* the entity tables: content type -> object id -> status
    thread, \* request threads: the call each is in, its place and its locals
    caps,   \* the Capability table: id -> the row's parent and level
    recos   \* the CapabilityRecommendation table: id -> status and applied_at

\* the tables the vector manager does not touch
tables == <<caps, recos>>

vars == <<idx, recs, disk, ent, thread, caps, recos>>

\* The outcome of a call is a record: the indexes, rows and files it leaves,
\* whether it returned (ok) or raised, and the value it returned (ret).
\* faults a call can meet: the embedding service fails, the database fails,
\* the index files cannot be written, the process dies after index.add,
\* after update_or_create, or while _save_indexes writes one of the files
CrashSaveFaults == {"crash_save_" \o k : k \in IndexKeys}

Faults ==
    {"none", "service", "db", "save", "crash_append", "crash_upsert"}
        \cup CrashSaveFaults

\* the index whose file was being written when the process died
TornKey(f) == CHOOSE k \in IndexKeys : f = "crash_save_" \o k

Total(ix) ==
    Len(ix["capabilities"]) + Len(ix["business_goals"]) + Len(ix["recommendations"])

Outcome(ix, rs, dk, ok, ret) ==
    [idx |-> ix, recs |-> rs, disk |-> dk, ok |-> ok, ret |-> ret]

\* the process dies and is started again: VectorManager.__init__ loads the
\* indexes from the files; the database keeps its committed rows
Crashed(rs, dk) == Outcome(LoadIndexes(dk), rs, dk, FALSE, -1)

IndexPrepend(ix, key, vec) == [ix EXCEPT ![key] = <<vec>> \o @]

\* index.add(embedding.reshape(1, -1))
IndexAdd(ix, key, vec) == [ix EXCEPT ![key] = Append(@, vec)]

PositionAfterAdd(ix, key) == Len(ix[key]) + 1

\* vector_index = index.ntotal, read before index.add
NewPosition(ix, key) == Len(ix[key])

\* add_vector
DoAddVector(s, ct, oid, text, f) ==
    LET e   == GenerateEmbedding(text, f # "service")
        key == IndexKey(ct)
    IN  IF ~e.ok \/ key \notin IndexKeys
        THEN Outcome(s.idx, s.recs, s.disk, FALSE, -1)
        ELSE
          LET vi == NewPosition(s.idx, key)
              ix == IndexAdd(s.idx, key, e.vec)
              up == UpdateOrCreate(s.recs, ct, oid, vi, text, f # "db")
          IN  IF f = "crash_append" THEN Crashed(s.recs, s.disk)
              ELSE IF ~up.ok THEN Outcome(ix, s.recs, s.disk, FALSE, -1)
              ELSE IF f = "crash_upsert" THEN Crashed(up.recs, s.disk)
              ELSE IF f \in CrashSaveFaults
                   THEN Crashed(up.recs, SaveIndexesUntil(ix, s.disk, TornKey(f)))
              ELSE Outcome(ix, up.recs,
                           SaveIndexes(ix, s.disk,
                                       IF f = "save" THEN IndexKeys ELSE {}),
                           TRUE, vi)

\* the value of a call that ends without a return statement
None == "None"

\* remove_vector: the row is deleted when there is one; the function has no
\* return statement on either path
DoRemoveVector(s, ct, oid, f) ==
    IF f = "db" \/ ~IsUuid(oid)
    THEN Outcome(s.idx, s.recs, s.disk, FALSE, -1)
    ELSE Outcome(s.idx, DeleteRecord(s.recs, ct, oid), s.disk, TRUE, None)

\* update_vector: remove_vector, then add_vector
DoUpdateVector(s, ct, oid, text, f) ==
    LET rm == DoRemoveVector(s, ct, oid, "none")
    IN  IF ~rm.ok THEN rm ELSE DoAddVector(rm, ct, oid, text, f)

\* a call run from start to end by one thread while no other thread runs
Commit(o) ==
    /\ idx' = o.idx
    /\ recs' = o.recs
    /\ disk' = o.disk
    /\ UNCHANGED thread

Here == [idx |-> idx, recs |-> recs, disk |-> disk]

AddVector(ct, oid, text, f) ==
    /\ Total(idx) < MaxVectors
    /\ Commit(DoAddVector(Here, ct, oid, text, f))
    /\ UNCHANGED <<ent, tables>>

RemoveVector(ct, oid, f) ==
    /\ Commit(DoRemoveVector(Here, ct, oid, f))
    /\ UNCHANGED <<ent, tables>>

UpdateVector(ct, oid, text, f) ==
    /\ Total(idx) < MaxVectors
    /\ Commit(DoUpdateVector(Here, ct, oid, text, f))
    /\ UNCHANGED <<ent, tables>>

\* ------------------------------------------------------------------ search
SizeNotK(a, b) == b

Min(a, b) == IF a <= b THEN a ELSE b

\* faiss leaves open which of several vectors of equal score it keeps and
\* in which order it returns them: a tie order ranks the positions of an
\* index of n vectors, and every ranking is an outcome index.search can have
RECURSIVE Rankings(_)
Rankings(S) ==
    IF S = {} THEN {<<>>}
    ELSE UNION {{Append(r, x) : r \in Rankings(S \ {x})} : x \in S}

TieOrders(n) == Rankings(1..n)

\* index.search(query, n) of a faiss IndexFlatIP: the n vectors of greatest
\* inner product, by score descending; among equal scores the one ranked
\* first by `tie` is kept and comes first
RECURSIVE TopK(_, _, _, _, _)
TopK(ixk, q, n, taken, tie) ==
    IF n = 0 THEN <<>>
    ELSE
      LET cand == (1..Len(ixk)) \ taken
          best == CHOOSE p \in cand : \A p2 \in cand :
                      \/ Dot(q, ixk[p]) > Dot(q, ixk[p2])
                      \/ (Dot(q, ixk[p]) = Dot(q, ixk[p2]) /\ tie[p] <= tie[p2])
      IN  <<[score |-> Dot(q, ixk[best]), idx |-> best - 1]>>
              \o TopK(ixk, q, n - 1, taken \cup {best}, tie)

FaissSearch(ixk, q, kk, tie) == TopK(ixk, q, Min(kk, Len(ixk)), {}, tie)

StrictlyAbove(score, thr) == score > thr

\* the test `score >= threshold` of search_similar
PassesThreshold(score, thr) == score >= thr

RecordsAtAnyType(rows, ct, vi) == {r \in rows : r.vector_index = vi}

\* objects.get(content_type=content_type, vector_index=idx): the rows found
RecordsAt(rows, ct, vi) ==
    {r \in rows : r.content_type = ct /\ r.vector_index = vi}

\* the result dictionary search_similar builds for a hit
Result(r, h) ==
    [object_id |-> r.object_id, similarity_score |-> h.score,
     vector_index |-> h.idx, text_content |-> r.text_content]

\* the loop of search_similar over the hits: a hit below the threshold, with
\* no row or with no related object adds nothing
RECURSIVE Resolve(_, _, _, _, _)
Resolve(hits, rows, en, ct, thr) ==
    IF hits = <<>> THEN <<>>
    ELSE
      LET h    == Head(hits)
          at   == RecordsAt(rows, ct, h.idx)
          rest == Resolve(Tail(hits), rows, en, ct, thr)
      IN  IF PassesThreshold(h.score, thr) /\ at # {}
          THEN LET r == CHOOSE x \in at : TRUE
               IN  IF RelatedObject(en, r) # NoEntity
                   THEN <<Result(r, h)>> \o rest
                   ELSE rest
          ELSE rest

ResultRows ==
    [object_id : ObjectIds, similarity_score : 0..(Unit * Unit),
     vector_index : 0..MaxVectors, text_content : Texts]

\* the cases in which the body of search_similar raises: generate_embedding
\* raises, self.indexes has no such key, the database fails, or index.search
\* is asked for k <= 0 vectors of an index that is not empty
SearchRaises(ix, ct, text, kk, f) ==
    \/ ~GenerateEmbedding(text, f # "service").ok
    \/ IndexKey(ct) \notin IndexKeys
    \/ (Len(ix[IndexKey(ct)]) > 0 /\ (kk <= 0 \/ f = "db"))

\* search_similar: every exception is caught and [] returned
DoSearchSimilar(ix, rows, en, ct, text, kk, thr, f, tie) ==
    LET e   == GenerateEmbedding(text, f # "service")
        key == IndexKey(ct)
    IN  IF SearchRaises(ix, ct, text, kk, f) THEN <<>>
        ELSE IF Len(ix[key]) = 0 THEN <<>>
        ELSE Resolve(FaissSearch(ix[key], e.vec, kk, tie), rows, en, ct, thr)

\* the tie orders index.search can follow on the index of content type ct
TiesOf(ix, ct) ==
    IF IndexKey(ct) \in IndexKeys THEN TieOrders(Len(ix[IndexKey(ct)]))
    ELSE TieOrders(0)

\* a search_similar call: it returns DoSearchSimilar of the current state and
\* writes nothing
SearchSimilar(ct, text, kk, thr, f) ==
    /\ \E tie \in TiesOf(idx, ct) :
           DoSearchSimilar(idx, recs, ent, ct, text, kk, thr, f, tie)
               \in Seq(ResultRows)
    /\ UNCHANGED vars

StatsFromRows(ix) ==
    [k \in DOMAIN ix |->
        [total_vectors |-> Cardinality({r \in recs : IndexKey(r.content_type) = k})]]

\* get_index_stats: for every index its ntotal; nothing is written
DoGetIndexStats(ix) == [k \in DOMAIN ix |-> [total_vectors |-> Len(ix[k])]]

GetIndexStats ==
    /\ DOMAIN DoGetIndexStats(idx) = DOMAIN idx
    /\ UNCHANGED vars

\* ----------------------------------------------------------------- rebuild
\* the loop of rebuild_index: add_vector for every enumerated object, in the
\* order of the query; the first add_vector that raises ends it.  `txt` is
\* the text assembled from each object's fields, `f` the fault met by the
\* `at`-th add_vector
RECURSIVE Replay(_, _, _, _, _, _)
Replay(s, ct, order, txt, f, at) ==
    IF order = <<>> THEN s
    ELSE
      LET o == DoAddVector(s, ct, Head(order), txt[Head(order)],
                           IF at = 1 THEN f ELSE "none")
      IN  IF ~o.ok THEN o ELSE Replay(o, ct, Tail(order), txt, f, at - 1)

\* rebuild_index: a new empty index, the rows of the content type deleted,
\* then the replay
DoRebuildIndex(s, ct, order, txt, f, at) ==
    LET key == IndexKey(ct)
        ix  == [k \in DOMAIN s.idx \cup {key} |->
                    IF k = key THEN <<>> ELSE s.idx[k]]
    IN  Replay(Outcome(ix, DeleteRecordsOf(s.recs, ct), s.disk, TRUE, -1),
               ct, order, txt, f, at)

Orders(S) ==
    {q \in UNION {[1..n -> S] : n \in 0..Cardinality(S)} :
        /\ Len(q) = Cardinality(S)
        /\ \A i, j \in 1..Len(q) : i # j => q[i] # q[j]}

RebuildIndex(ct, order, txt, f, at) ==
    /\ Total(idx) - Len(idx[IndexKey(ct)]) + Len(order) <= MaxVectors
    /\ Commit(DoRebuildIndex(Here, ct, order, txt, f, at))
    /\ UNCHANGED <<ent, tables>>

\* ----------------------------------------------------------------- signals
\* the handlers swallow every exception of the vector manager
Swallow(o) == [o EXCEPT !.ok = TRUE, !.ret = -1]

EmbedWhateverStatus(s, ct, oid, status, text, f) ==
    Swallow(DoAddVector(s, ct, oid, text, f))

\* capability_post_save and business_goal_post_save, run on commit of the
\* entity's save
DoPostSave(s, ct, oid, status, text, f) ==
    IF ct = "CAPABILITY" /\ status \notin {"CURRENT", "PROPOSED"}
    THEN Swallow(DoRemoveVector(s, ct, oid, f))
    ELSE Swallow(DoAddVector(s, ct, oid, text, f))

\* Model.save() of a Capability or BusinessGoal, with its post_save handler
SaveEntity(ct, oid, status, text, f) ==
    /\ Total(idx) < MaxVectors
    /\ ent' = [ent EXCEPT ![ct][oid] = status]
    /\ Commit(DoPostSave(Here, ct, oid, status, text, f))
    /\ UNCHANGED tables

\* Model.delete() with capability_post_delete / business_goal_post_delete
DeleteEntity(ct, oid) ==
    /\ ent[ct][oid] # NoEntity
    /\ ent' = [ent EXCEPT ![ct][oid] = NoEntity]
    /\ Commit(Swallow(DoRemoveVector(Here, ct, oid, "none")))
    /\ UNCHANGED tables

\* the process is stopped and started again between two calls
Restart ==
    /\ idx' = LoadIndexes(disk)
    /\ UNCHANGED <<recs, disk, ent, thread, tables>>

\* ----------------------------------------------------------------- threads
\* The request threads of the server share the one VectorManager
\* (vector_manager, the module's global instance); nothing in the class takes
\* a lock.  A thread runs a call statement by statement.
Threads == {"t1", "t2"}

Idle ==
    [pc |-> "idle", ct |-> "", oid |-> "", text |-> "", vec |-> <<0, 0>>,
     vi |-> 0, k |-> 0, threshold |-> 0, hits |-> <<>>, out |-> <<>>,
     during |-> FALSE, order |-> <<>>, todo |-> <<>>, txt |-> <<>>,
     before |-> <<>>, reco |-> ""]

InAdd(t) == thread[t].pc \in {"add_embedded", "add_sized", "add_appended", "add_upserted"}
InRebuild(t) == thread[t].pc \in {"rebuild_cleared", "rebuild_replaying"}

\* vectors that calls in flight have still to append
Pending == Cardinality({t \in Threads : thread[t].pc \in {"add_embedded", "add_sized"}})

\* add_vector, lines 116-127: the embedding and the index key
AddBegin(t, ct, oid, text) ==
    /\ thread[t].pc = "idle"
    /\ \A u \in Threads : ~InRebuild(u)
    /\ Total(idx) + Pending < MaxThreadVectors
    /\ GenerateEmbedding(text, TRUE).ok
    /\ IndexKey(ct) \in IndexKeys
    /\ thread' = [thread EXCEPT ![t] = [Idle EXCEPT !.pc = "add_embedded", !.ct = ct,
                   !.oid = oid, !.text = text,
                   !.vec = GenerateEmbedding(text, TRUE).vec]]
    /\ UNCHANGED <<idx, recs, disk, ent, tables>>

\* add_vector, lines 130-131: vector_index = index.ntotal
AddReadSize(t) ==
    /\ thread[t].pc = "add_embedded"
    /\ thread' = [thread EXCEPT ![t].pc = "add_sized",
                          ![t].vi = NewPosition(idx, IndexKey(thread[t].ct))]
    /\ UNCHANGED <<idx, recs, disk, ent, tables>>

\* add_vector, line 132: index.add
AddAppend(t) ==
    /\ thread[t].pc = "add_sized"
    /\ idx' = IndexAdd(idx, IndexKey(thread[t].ct), thread[t].vec)
    /\ thread' = [thread EXCEPT ![t].pc = "add_appended"]
    /\ UNCHANGED <<recs, disk, ent, tables>>

\* add_vector, lines 135-144: update_or_create; when it raises the call ends
AddUpsert(t) ==
    /\ thread[t].pc = "add_appended"
    /\ LET up == UpdateOrCreate(recs, thread[t].ct, thread[t].oid, thread[t].vi,
                                thread[t].text, TRUE)
       IN  /\ recs' = up.recs
           /\ thread' = [thread EXCEPT ![t] =
                          IF up.ok THEN [@ EXCEPT !.pc = "add_upserted"] ELSE Idle]
    /\ UNCHANGED <<idx, disk, ent, tables>>

\* add_vector, lines 147-150: _save_indexes and return
AddSave(t) ==
    /\ thread[t].pc = "add_upserted"
    /\ disk' = SaveIndexes(idx, disk, {})
    /\ thread' = [thread EXCEPT ![t] = Idle]
    /\ UNCHANGED <<idx, recs, ent, tables>>

\* search_similar, lines 160-177: the embedding and index.search
SearchIndex(t, ct, text, kk, th) ==
    /\ thread[t].pc = "idle"
    /\ GenerateEmbedding(text, TRUE).ok
    /\ IndexKey(ct) \in IndexKeys
    /\ \E tie \in TiesOf(idx, ct) :
         thread' = [thread EXCEPT ![t] = [Idle EXCEPT !.pc = "search_searched",
                   !.ct = ct, !.text = text, !.k = kk, !.threshold = th,
                   !.during = \E u \in Threads : InRebuild(u),
                   !.hits = FaissSearch(idx[IndexKey(ct)],
                                        GenerateEmbedding(text, TRUE).vec, kk,
                                        tie)]]
    /\ UNCHANGED <<idx, recs, disk, ent, tables>>

\* search_similar, lines 179-231: the hits are resolved against the table
SearchResolve(t) ==
    /\ thread[t].pc = "search_searched"
    /\ thread' = [thread EXCEPT ![t].pc = "search_done",
                          ![t].out = Resolve(thread[t].hits, recs, ent, thread[t].ct,
                                             thread[t].threshold)]
    /\ UNCHANGED <<idx, recs, disk, ent, tables>>

\* the caller takes the result
SearchReturn(t) ==
    /\ thread[t].pc = "search_done"
    /\ thread' = [thread EXCEPT ![t] = Idle]
    /\ UNCHANGED <<idx, recs, disk, ent, tables>>

\* rebuild_index, line 284: the index is replaced by a new empty one
RebuildClear(t, ct, order, txt) ==
    /\ thread[t].pc = "idle"
    /\ \A u \in Threads : ~InRebuild(u) /\ ~InAdd(u)
    /\ Total(idx) - Len(idx[IndexKey(ct)]) + Len(order) <= MaxThreadVectors
    /\ idx' = [idx EXCEPT ![IndexKey(ct)] = <<>>]
    /\ thread' = [thread EXCEPT ![t] = [Idle EXCEPT !.pc = "rebuild_cleared",
                   !.ct = ct, !.order = order, !.todo = order, !.txt = txt,
                   !.before = Here]]
    /\ UNCHANGED <<recs, disk, ent, tables>>

\* rebuild_index, line 287: the rows of the content type are deleted
RebuildDelete(t) ==
    /\ thread[t].pc = "rebuild_cleared"
    /\ recs' = DeleteRecordsOf(recs, thread[t].ct)
    /\ thread' = [thread EXCEPT ![t].pc = "rebuild_replaying"]
    /\ UNCHANGED <<idx, disk, ent, tables>>

\* rebuild_index, lines 290-306: one add_vector of the loop
RebuildAdd(t) ==
    /\ thread[t].pc = "rebuild_replaying"
    /\ thread[t].todo # <<>>
    /\ LET oid == Head(thread[t].todo)
           o   == DoAddVector(Here, thread[t].ct, oid, thread[t].txt[oid], "none")
       IN  /\ idx' = o.idx
           /\ recs' = o.recs
           /\ disk' = o.disk
           /\ thread' = [thread EXCEPT ![t] =
                          IF o.ok THEN [@ EXCEPT !.todo = Tail(@)] ELSE Idle]
    /\ UNCHANGED <<ent, tables>>

\* rebuild_index, line 308: the loop is over and the call returns
RebuildReturn(t) ==
    /\ thread[t].pc = "rebuild_replaying"
    /\ thread[t].todo = <<>>
    /\ thread' = [thread EXCEPT ![t] = Idle]
    /\ UNCHANGED <<idx, recs, disk, ent, tables>>

\* ---------------------------------------------------------- capability map
CapabilityIds == {"k1", "k2", "k3"}

\* parent = None
NoParent == "null"

\* an id without a row in the table
NoCapability == [stored |-> FALSE, parent |-> NoParent, level |-> 0]

\* Capability._check_circular_reference: walk from the new parent up the
\* stored parents; True when the walk meets the capability itself or an id it
\* has already visited
RECURSIVE CircularFrom(_, _, _, _)
CircularFrom(cs, self, current, visited) ==
    IF current = NoParent THEN FALSE
    ELSE IF current \in visited \/ current = self THEN TRUE
    ELSE CircularFrom(cs, self, cs[current].parent, visited \cup {current})

SelfParentOnly(cs, self, p) == p = self

CheckCircularReference(cs, self, p) == CircularFrom(cs, self, p, {})

\* Capability.clean, with the foreign key check of full_clean: the parent
\* has a row, the hierarchy has no circle, the level is above the parent's
Clean(cs, self, p, level) ==
    p # NoParent =>
        /\ cs[p].stored
        /\ ~CheckCircularReference(cs, self, p)
        /\ level > cs[p].level

\* Capability.save of the capability self with parent p: the level is
\* computed from the parent's stored level, the instance is validated, and
\* its own row is written; no other row is written
DoCapabilitySave(cs, self, p) ==
    LET level == IF p # NoParent THEN cs[p].level + 1 ELSE 1
    IN  IF Clean(cs, self, p, level)
        THEN [caps |-> [cs EXCEPT ![self] =
                           [stored |-> TRUE, parent |-> p, level |-> level]],
              ok |-> TRUE]
        ELSE [caps |-> cs, ok |-> FALSE]

\* Capability.objects.create(parent=...) of _apply_add_capability and
\* capability.parent = ...; capability.save() of _apply_modify_capability.
\* The embedding of a saved capability is the signal handlers' (SaveEntity).
SaveCapability(self, p) ==
    /\ p # NoParent => caps[p].level < MaxLevel
    /\ caps' = DoCapabilitySave(caps, self, p).caps
    /\ UNCHANGED <<idx, recs, disk, ent, thread, recos>>

\* cap.children.exists()
HasChildren(cs, self) ==
    \E c \in CapabilityIds : cs[c].stored /\ cs[c].parent = self

\* CapabilityViewSet.permanent_delete of a capability no recommendation
\* refers to: refused while the capability has children, else the row is
\* deleted
DeleteCapability(self) ==
    /\ caps[self].stored
    /\ caps' = IF HasChildren(caps, self) THEN caps
               ELSE [caps EXCEPT ![self] = NoCapability]
    /\ UNCHANGED <<idx, recs, disk, ent, thread, recos>>

\* --------------------------------------------------------- recommendations
RecommendationIds == {"r1", "r2"}

\* CapabilityRecommendation.STATUS_CHOICES
RecommendationStatuses == {"PENDING", "APPLIED", "REJECTED"}

\* a status value that is not among the choices
OtherStatus == "OTHER"

\* applied_at: null, or a timestamp
NoTime == "null"
Now == "now"

\* an id without a row in the table
NoRecommendation == [stored |-> FALSE, status |-> "", applied_at |-> NoTime]

CleanIgnoringTimestamp(status, at) == status \in RecommendationStatuses

\* CapabilityRecommendation.clean under full_clean, for a recommendation
\* whose type, target and proposed fields are valid: the status is one of the
\* choices, and a status other than APPLIED has no applied_at
CleanRecommendation(status, at) ==
    /\ status \in RecommendationStatuses
    /\ ~(status # "APPLIED" /\ at # NoTime)

\* Meta.constraints, applied_recommendations_have_timestamp
CheckConstraint(status, at) ==
    status = "PENDING" \/ status = "REJECTED" \/ at # NoTime

\* CapabilityRecommendation.save of an instance with the given status and
\* applied_at: applied_at is set when the status is APPLIED and it has none,
\* the instance is validated and the row is written
DoRecommendationSave(rs, r, status, at) ==
    LET stamped == IF status = "APPLIED" /\ at = NoTime THEN Now ELSE at
    IN  IF CleanRecommendation(status, stamped) /\ CheckConstraint(status, stamped)
        THEN [recos |-> [rs EXCEPT ![r] =
                 [stored |-> TRUE, status |-> status, applied_at |-> stamped]],
              ok |-> TRUE]
        ELSE [recos |-> rs, ok |-> FALSE]

\* objects.create(...) and instance.save() after the caller assigned the
\* status, and possibly applied_at as the apply endpoint does
SaveRecommendation(r, status, at) ==
    /\ recos' = DoRecommendationSave(recos, r, status, at).recos
    /\ UNCHANGED <<idx, recs, disk, ent, thread, caps>>

\* ------------------------------------------------------ apply and reject
\* The requests on a recommendation of type ADD_CAPABILITY with valid
\* proposed fields and no proposed parent, statement by statement.

\* apply, lines 432-435, and reject, lines 458-464: get_object reads the row
\* and the request goes on when the status it read is PENDING; otherwise it
\* answers with an error
RequestBegin(t, r, kind) ==
    /\ thread[t].pc = "idle"
    /\ recos[r].stored
    /\ thread' = IF recos[r].status = "PENDING"
                 THEN [thread EXCEPT ![t] = [Idle EXCEPT !.pc = kind, !.reco = r]]
                 ELSE thread
    /\ UNCHANGED <<idx, recs, disk, ent, caps, recos>>

\* the id Capability.objects.create gives the new capability
NewCapabilityId(cs) == CHOOSE c \in CapabilityIds : ~cs[c].stored

\* apply, lines 438-443, inside transaction.atomic(): _apply_add_capability
\* creates the capability, then the instance read at the start of the
\* request is saved with status APPLIED and applied_at; a failure of either
\* rolls both back.  The embedding of the new capability is the signal
\* handlers' (SaveEntity).
ApplyCommit(t) ==
    /\ thread[t].pc = "apply_checked"
    /\ \E c \in CapabilityIds : ~caps[c].stored
    /\ LET made  == DoCapabilitySave(caps, NewCapabilityId(caps), NoParent)
           saved == DoRecommendationSave(recos, thread[t].reco, "APPLIED", Now)
       IN  IF made.ok /\ saved.ok
           THEN caps' = made.caps /\ recos' = saved.recos
           ELSE UNCHANGED <<caps, recos>>
    /\ thread' = [thread EXCEPT ![t] = Idle]
    /\ UNCHANGED <<idx, recs, disk, ent>>

\* reject, lines 466-467: the instance read at the start of the request is
\* saved with status REJECTED
RejectCommit(t) ==
    /\ thread[t].pc = "reject_checked"
    /\ recos' = DoRecommendationSave(recos, thread[t].reco, "REJECTED", NoTime).recos
    /\ thread' = [thread EXCEPT ![t] = Idle]
    /\ UNCHANGED <<idx, recs, disk, ent, caps>>

\* ----------------------------------------------------------- specification
Init ==
    /\ disk = [k \in IndexKeys |-> NoFile]
    /\ idx = LoadIndexes(disk)
    /\ recs = {}
    /\ ent = [ct \in ContentTypes |-> [o \in Uuids |-> NoEntity]]
    /\ thread = [t \in Threads |-> Idle]
    /\ caps = [c \in CapabilityIds |-> NoCapability]
    /\ recos = [r \in RecommendationIds |-> NoRecommendation]

\* object ids the calls of a content type are made with
CallIds(ct) == IF ct = "CAPABILITY" THEN Uuids ELSE {"u1"}

\* Calls with valid arguments in a fault-free environment, one at a time.
Next ==
    \/ \E ct \in CallTypes, text \in EntityTexts : \E oid \in CallIds(ct) :
           AddVector(ct, oid, text, "none")
    \/ \E ct \in CallTypes : \E oid \in CallIds(ct) :
           RemoveVector(ct, oid, "none")
    \/ \E ct \in CallTypes, text \in EntityTexts : \E oid \in CallIds(ct) :
           UpdateVector(ct, oid, text, "none")
    \/ \E ct \in CallTypes, text \in Texts, kk \in Ks, thr \in Thresholds :
           SearchSimilar(ct, text, kk, thr, "none")
    \/ \E ct \in CallTypes, txt \in [Uuids -> EntityTexts] :
           \E order \in Orders(Enumerated(ent, ct)) :
               RebuildIndex(ct, order, txt, "none", 1)
    \/ \E ct \in CallTypes, text \in EntityTexts :
           \E oid \in CallIds(ct), status \in Statuses(ct) :
               SaveEntity(ct, oid, status, text, "none")
    \/ \E ct \in CallTypes : \E oid \in CallIds(ct) : DeleteEntity(ct, oid)
    \/ GetIndexStats

Spec == Init /\ [][Next]_vars

\* Calls on one content type whose entities do not change, with faults and
\* restarts of the process.
FaultTypes == {"CAPABILITY"}

InitFault ==
    /\ disk = [k \in IndexKeys |-> NoFile]
    /\ idx = LoadIndexes(disk)
    /\ recs = {}
    /\ ent = [ct \in ContentTypes |->
                 [o \in Uuids |-> IF ct \in FaultTypes THEN "CURRENT" ELSE NoEntity]]
    /\ thread = [t \in Threads |-> Idle]
    /\ caps = [c \in CapabilityIds |-> NoCapability]
    /\ recos = [r \in RecommendationIds |-> NoRecommendation]

NextFault ==
    \/ \E ct \in FaultTypes, oid \in ObjectIds, text \in Texts, f \in Faults :
           AddVector(ct, oid, text, f)
    \/ \E ct \in FaultTypes, oid \in Uuids : RemoveVector(ct, oid, "none")
    \/ \E ct \in FaultTypes, oid \in Uuids, text \in EntityTexts :
           UpdateVector(ct, oid, text, "none")
    \/ \E ct \in FaultTypes, text \in Texts, kk \in Ks, thr \in Thresholds,
          f \in {"none", "service"} :
           SearchSimilar(ct, text, kk, thr, f)
    \/ \E ct \in FaultTypes, txt \in [Uuids -> EntityTexts], f \in {"none", "save"} :
           \E order \in Orders(Enumerated(ent, ct)) :
               RebuildIndex(ct, order, txt, f, 1)
    \/ GetIndexStats
    \/ Restart

SpecFault == InitFault /\ [][NextFault]_vars

\* Capability.STATUS_CHOICES
CapabilityStatuses == {"CURRENT", "PROPOSED", "DEPRECATED", "ARCHIVED"}

\* Capabilities are saved and deleted, each in a transaction of its own that
\* commits; the embedding happens through the signal handlers alone, in a
\* fault-free environment.
NextSignals ==
    \/ \E oid \in Uuids, status \in CapabilityStatuses, text \in EntityTexts :
           SaveEntity("CAPABILITY", oid, status, text, "none")
    \/ \E oid \in Uuids : DeleteEntity("CAPABILITY", oid)

SpecSignals == Init /\ [][NextSignals]_vars

\* Capabilities are created, moved under other parents and deleted, and
\* recommendations are saved, one request at a time.
NextMap ==
    \/ \E self \in CapabilityIds, p \in CapabilityIds \cup {NoParent} :
           SaveCapability(self, p)
    \/ \E self \in CapabilityIds : DeleteCapability(self)
    \/ \E r \in RecommendationIds,
          status \in RecommendationStatuses \cup {OtherStatus},
          at \in {NoTime, Now} :
           SaveRecommendation(r, status, at)

SpecMap == Init /\ [][NextMap]_vars

\* Capabilities are saved and deleted while add_vector is also called
\* directly, for ids with and without a capability, and searches are made.
NextStale ==
    \/ \E oid \in Uuids, text \in EntityTexts :
           AddVector("CAPABILITY", oid, text, "none")
    \/ \E oid \in Uuids, status \in CapabilityStatuses, text \in EntityTexts :
           SaveEntity("CAPABILITY", oid, status, text, "none")
    \/ \E oid \in Uuids : DeleteEntity("CAPABILITY", oid)
    \/ \E text \in EntityTexts, kk \in Ks, thr \in Thresholds :
           SearchSimilar("CAPABILITY", text, kk, thr, "none")

SpecStale == Init /\ [][NextStale]_vars

\* One capability and one business goal are saved, their vectors updated
\* and removed and the indexes of both content types rebuilt.
NextCategories ==
    \/ \E ct \in CallTypes, text \in EntityTexts : \E status \in Statuses(ct) :
           SaveEntity(ct, "u1", status, text, "none")
    \/ \E ct \in CallTypes : RemoveVector(ct, "u1", "none")
    \/ \E ct \in CallTypes, text \in EntityTexts :
           UpdateVector(ct, "u1", text, "none")
    \/ \E ct \in CallTypes, txt \in [Uuids -> EntityTexts] :
           \E order \in Orders(Enumerated(ent, ct)) :
               RebuildIndex(ct, order, txt, "none", 1)

SpecCategories == Init /\ [][NextCategories]_vars

\* Two request threads send apply and reject requests for recommendations
\* that are stored with status PENDING.
InitRequests ==
    /\ disk = [k \in IndexKeys |-> NoFile]
    /\ idx = LoadIndexes(disk)
    /\ recs = {}
    /\ ent = [ct \in ContentTypes |-> [o \in Uuids |-> NoEntity]]
    /\ thread = [t \in Threads |-> Idle]
    /\ caps = [c \in CapabilityIds |-> NoCapability]
    /\ recos = [r \in RecommendationIds |->
                   [stored |-> TRUE, status |-> "PENDING", applied_at |-> NoTime]]

NextRequests ==
    \/ \E t \in Threads, r \in RecommendationIds,
          kind \in {"apply_checked", "reject_checked"} :
           RequestBegin(t, r, kind)
    \/ \E t \in Threads : ApplyCommit(t)
    \/ \E t \in Threads : RejectCommit(t)

SpecRequests == InitRequests /\ [][NextRequests]_vars

\* Two request threads making calls on one content type whose entities do not
\* change, in a fault-free environment: both add, the first also rebuilds and
\* the second also searches.  An add_vector and a rebuild_index are not in
\* flight together.
Rebuilder == "t1"
Searcher == "t2"

NextConc ==
    \/ \E t \in Threads, ct \in FaultTypes, oid \in Uuids, text \in EntityTexts :
           AddBegin(t, ct, oid, text)
    \/ \E t \in Threads : AddReadSize(t)
    \/ \E t \in Threads : AddAppend(t)
    \/ \E t \in Threads : AddUpsert(t)
    \/ \E t \in Threads : AddSave(t)
    \/ \E ct \in FaultTypes, text \in EntityTexts, kk \in Ks :
           SearchIndex(Searcher, ct, text, kk, 0)
    \/ SearchResolve(Searcher)
    \/ SearchReturn(Searcher)
    \/ \E ct \in FaultTypes, txt \in [Uuids -> EntityTexts] :
           \E order \in Orders(Enumerated(ent, ct)) :
               RebuildClear(Rebuilder, ct, order, txt)
    \/ RebuildDelete(Rebuilder)
    \/ RebuildAdd(Rebuilder)
    \/ RebuildReturn(Rebuilder)

SpecConc == InitFault /\ [][NextConc]_vars

\* One request thread searches, statement by statement, and asks for the
\* statistics, while vectors of existing capabilities are added and removed
\* by calls that run from start to end.
NextReads ==
    \/ \E oid \in Uuids, text \in EntityTexts :
           AddVector("CAPABILITY", oid, text, "none")
    \/ \E oid \in Uuids : RemoveVector("CAPABILITY", oid, "none")
    \/ \E text \in EntityTexts, kk \in Ks, thr \in {0, DefaultThreshold} :
           SearchIndex(Searcher, "CAPABILITY", text, kk, thr)
    \/ SearchResolve(Searcher)
    \/ SearchReturn(Searcher)
    \/ GetIndexStats

SpecReads == InitFault /\ [][NextReads]_vars

\* ------------------------------------------------------------------ claims
RowsOf(rows, ct, oid) ==
    {r \in rows : r.content_type = ct /\ r.object_id = oid}

Size(ix, ct) == Len(ix[IndexKey(ct)])

\* C1: every add_vector that returns, whatever fault it met on the way,
\* returns the size the content type's index had before the call and leaves
\* that index one vector longer.
C1_AddReturnsPreviousSize ==
    \A ct \in CallTypes, oid \in ObjectIds, text \in Texts, f \in Faults :
        LET o == DoAddVector(Here, ct, oid, text, f)
        IN  o.ok => /\ o.ret = Size(idx, ct)
                    /\ Size(o.idx, ct) = Size(idx, ct) + 1

\* a row made by an add_vector that found a non-empty index is in place, and
\* a further add_vector would return
C1_Witness ==
    \E r \in recs :
        /\ r.vector_index >= 1
        /\ r.vector_index = Size(idx, r.content_type) - 1
        /\ DoAddVector(Here, r.content_type, r.object_id, "b", "none").ok

\* C2: the table never holds two rows for one (content type, object id);
\* and two add_vector calls for one key, made with a UUID and texts that are
\* not blank, both return, leave the index two vectors longer and leave
\* exactly one row for the key, at the position the second call returned and
\* with the second call's text.
C2_OneRowPerObject ==
    /\ \A r1, r2 \in recs :
           (r1.content_type = r2.content_type /\ r1.object_id = r2.object_id)
               => r1 = r2
    /\ \A ct \in CallTypes, oid \in Uuids, t1, t2 \in EntityTexts :
           LET o1 == DoAddVector(Here, ct, oid, t1, "none")
               o2 == DoAddVector(o1, ct, oid, t2, "none")
           IN  /\ o1.ok /\ o2.ok
               /\ Size(o2.idx, ct) = Size(idx, ct) + 2
               /\ o2.ret = o1.ret + 1
               /\ RowsOf(o2.recs, ct, oid) = {Row(ct, oid, o2.ret, t2)}

\* an object was added twice: its row is at the later position and the
\* earlier position has no row
C2_Witness ==
    \E r \in recs :
        /\ r.vector_index >= 1
        /\ RecordsAt(recs, r.content_type, r.vector_index - 1) = {}
        /\ Size(idx, r.content_type) >= 2

\* C3: no two rows of one content type have the same index position.
C3_OneRowPerPosition ==
    \A r1, r2 \in recs :
        (r1.content_type = r2.content_type /\ r1.vector_index = r2.vector_index)
            => r1 = r2

\* two rows of one content type exist, and an add_vector is met by the
\* position constraint (the loaded index is shorter than a row's position)
C3_Witness ==
    \E r1, r2 \in recs :
        /\ r1 # r2
        /\ r1.content_type = r2.content_type
        /\ Size(idx, r1.content_type) <= r1.vector_index

SearchInputs == Texts \X (Ks \cup {5}) \X Thresholds

\* the object ids of a result list
Found(results) == {results[i].object_id : i \in 1..Len(results)}

RowsOfType(rows, ct) == {r \in rows : r.content_type = ct}

\* C4: remove_vector returns, leaves no row at the position the object's row
\* had, leaves every index as it was, and no search_similar made after it
\* returns the object; and in every state a search_similar returns only
\* objects that have a row, so the object stays out until it is added again.
C4_RemovedIsNotFound ==
    /\ \A ct \in CallTypes, oid \in Uuids :
           LET o == DoRemoveVector(Here, ct, oid, "none")
           IN  /\ o.ok
               /\ o.idx = idx
               /\ \A r \in RowsOf(recs, ct, oid) :
                      RecordsAt(o.recs, ct, r.vector_index) = {}
               /\ \A q \in SearchInputs, tie \in TiesOf(o.idx, ct) :
                      oid \notin Found(DoSearchSimilar(o.idx, o.recs, ent, ct,
                                                       q[1], q[2], q[3], "none",
                                                       tie))
    /\ \A ct \in CallTypes, q \in SearchInputs :
         \A tie \in TiesOf(idx, ct) :
           \A oid \in Found(DoSearchSimilar(idx, recs, ent, ct,
                                            q[1], q[2], q[3], "none", tie)) :
               RowsOf(recs, ct, oid) # {}

\* an object that a search returns and whose vector is not alone in its index
C4_Witness ==
    \E ct \in CallTypes, oid \in Uuids :
        /\ Size(idx, ct) >= 2
        /\ \A tie \in TiesOf(idx, ct) :
               oid \in Found(DoSearchSimilar(idx, recs, ent, ct, "a", 2, 0,
                                             "none", tie))
        /\ RowsOf(DoRemoveVector(Here, ct, oid, "none").recs, ct, oid) = {}

\* C5: a rebuild_index that returns leaves the content type's index with as
\* many vectors as objects were enumerated and the table with exactly one
\* row of that content type per enumerated object, at distinct positions of
\* the new index; with valid texts and without a fault it returns.
C5_RebuildMatchesSource ==
    \A ct \in CallTypes, txt \in [Uuids -> EntityTexts], f \in {"none", "save"} :
        \A order \in Orders(Enumerated(ent, ct)) :
            LET o    == DoRebuildIndex(Here, ct, order, txt, f, 1)
                rows == RowsOfType(o.recs, ct)
            IN  /\ o.ok
                /\ Size(o.idx, ct) = Cardinality(Enumerated(ent, ct))
                /\ {r.object_id : r \in rows} = Enumerated(ent, ct)
                /\ Cardinality(rows) = Cardinality(Enumerated(ent, ct))
                /\ \A r \in rows : r.vector_index < Size(o.idx, ct)

\* before a rebuild: an index with orphaned vectors, a row of an object that
\* is not enumerated, and an object to enumerate
C5_Witness ==
    \E ct \in CallTypes :
        /\ Enumerated(ent, ct) # {}
        /\ Size(idx, ct) > Cardinality(RowsOfType(recs, ct))
        /\ \E r \in RowsOfType(recs, ct) : r.object_id \notin Enumerated(ent, ct)

\* C6: add_vector for an existing object, followed at once by
\* search_similar(content type, text, k=1, threshold=0), returns exactly that
\* object, whichever of several equal scores index.search prefers.
C6_AddThenSearchFindsIt ==
    \A ct \in CallTypes, oid \in Uuids, text \in EntityTexts :
        LET o == DoAddVector(Here, ct, oid, text, "none")
        IN  (o.ok /\ ent[ct][oid] # NoEntity) =>
                \A tie \in TiesOf(o.idx, ct) :
                    Found(DoSearchSimilar(o.idx, o.recs, ent, ct, text, 1, 0,
                                          "none", tie)) = {oid}

HasPosition(t) == thread[t].pc \in {"add_sized", "add_appended", "add_upserted"}

\* C7: two add_vector calls in flight on one content type never hold the
\* same index position.
C7_ConcurrentAddsGetDistinctPositions ==
    \A t, u \in Threads :
        (t # u /\ HasPosition(t) /\ HasPosition(u)
              /\ IndexKey(thread[t].ct) = IndexKey(thread[u].ct))
            => thread[t].vi # thread[u].vi

\* what search_similar can return when it runs alone on the indexes and
\* rows s
SearchAlone(s, t) ==
    {DoSearchSimilar(s.idx, s.recs, ent, thread[t].ct, thread[t].text,
                     thread[t].k, thread[t].threshold, "none", tie) :
        tie \in TiesOf(s.idx, thread[t].ct)}

\* C8: a search_similar that ran while a rebuild_index of its content type
\* was in flight returns what it would have returned before the rebuild
\* began or what it returns once the rebuild is complete.
C8_SearchSeesWholeIndex ==
    LET s == thread[Searcher]
        r == thread[Rebuilder]
    IN  (s.pc = "search_done" /\ s.during /\ InRebuild(Rebuilder) /\ s.ct = r.ct)
            => \/ s.out \in SearchAlone(r.before, Searcher)
               \/ s.out \in SearchAlone(DoRebuildIndex(r.before, r.ct, r.order,
                                                       r.txt, "none", 1), Searcher)

\* the rows whose position the index of their content type does not hold
Dangling(ix, rows) ==
    {r \in rows : r.vector_index >= Size(ix, r.content_type)}

\* C9: when the process dies in add_vector between index.add and
\* update_or_create and is started again, the rows are those from before the
\* call and no row has a position that the loaded index of its content type
\* does not hold.
C9_CrashAfterAppendIsConsistent ==
    \A ct \in FaultTypes, oid \in Uuids, text \in EntityTexts :
        LET o == DoAddVector(Here, ct, oid, text, "crash_append")
        IN  /\ o.recs = recs
            /\ Dangling(o.idx, o.recs) = {}

\* C10: when update_or_create raises in add_vector, the files are as before
\* the call, and an add_vector made after it writes the index file it would
\* have written had the failed call never been made.
C10_FailedUpsertIsNeverPersisted ==
    \A ct \in FaultTypes, oid \in ObjectIds, text \in EntityTexts,
       f \in {"none", "db"} :
        LET o1 == DoAddVector(Here, ct, oid, text, f)
            vi == NewPosition(idx, IndexKey(ct))
        IN  (~o1.ok /\ Size(o1.idx, ct) = vi + 1) =>
                /\ o1.disk = disk
                /\ \A oid2 \in Uuids, t2 \in EntityTexts :
                       LET o2 == DoAddVector(o1, ct, oid2, t2, "none")
                       IN  o2.ok => o2.disk = DoAddVector(Here, ct, oid2, t2,
                                                          "none").disk

\* C11: when the index files cannot be written during add_vector, the call
\* raises and the in-memory indexes and the rows are as they were before it.
C11_SaveFailureIsReported ==
    \A ct \in FaultTypes, oid \in Uuids, text \in EntityTexts :
        LET o == DoAddVector(Here, ct, oid, text, "save")
        IN  /\ ~o.ok
            /\ o.idx = idx
            /\ o.recs = recs

\* C12: when the process dies while add_vector's _save_indexes is writing an
\* index file, every index file holds what it held before the call or what
\* the completed call would have written.
C12_CrashDuringSaveLeavesWholeFile ==
    \A ct \in FaultTypes, oid \in Uuids, text \in EntityTexts,
       f \in CrashSaveFaults :
        LET o    == DoAddVector(Here, ct, oid, text, f)
            done == DoAddVector(Here, ct, oid, text, "none")
        IN  \A k \in IndexKeys : o.disk[k] \in {disk[k], done.disk[k]}

\* C13: every result of search_similar is built from a row that is in the
\* table at the result's content type and index position, with that row's
\* object and text; a hit whose position has no row adds no result, so a
\* search returns no more results than index.search returned hits.
C13_ResultsHaveRecords ==
    \A ct \in CallTypes, q \in SearchInputs :
        \A tie \in TiesOf(idx, ct) :
            LET out == DoSearchSimilar(idx, recs, ent, ct, q[1], q[2], q[3],
                                       "none", tie)
            IN  /\ \A i \in 1..Len(out) :
                       Row(ct, out[i].object_id, out[i].vector_index,
                           out[i].text_content) \in recs
                /\ Len(out) <= Min(q[2], Size(idx, ct))

\* an index of two vectors of which one has lost its row: a search for two
\* results with threshold 0 returns one
C13_Witness ==
    \E ct \in CallTypes :
        /\ Size(idx, ct) >= 2
        /\ \A tie \in TiesOf(idx, ct) :
               Len(DoSearchSimilar(idx, recs, ent, ct, "a", 2, 0, "none", tie)) = 1

\* the hits index.search returns for a query text on content type ct
HitsFor(ct, text, kk, tie) ==
    LET h == FaissSearch(idx[IndexKey(ct)], GenerateEmbedding(text, TRUE).vec,
                         kk, tie)
    IN  {h[i] : i \in 1..Len(h)}

\* the hits that have a row whose object exists
Resolvable(ct, hits) ==
    {h \in hits : \E r \in RecordsAt(recs, ct, h.idx) : RelatedObject(ent, r) # NoEntity}

\* C14: search_similar returns no result whose score is below the threshold,
\* and returns every hit that has a row and an object and whose score is the
\* threshold or more, the hit whose score equals the threshold included.
C14_ThresholdIsInclusive ==
    \A ct \in CallTypes, text \in EntityTexts, kk \in Ks, thr \in Thresholds :
        \A tie \in TiesOf(idx, ct) :
            LET out == DoSearchSimilar(idx, recs, ent, ct, text, kk, thr,
                                       "none", tie)
                got == {[score |-> out[i].similarity_score,
                         idx |-> out[i].vector_index] : i \in 1..Len(out)}
            IN  /\ \A h \in got : h.score >= thr
                /\ \A h \in Resolvable(ct, HitsFor(ct, text, kk, tie)) :
                       h.score >= thr => h \in got

\* a search whose threshold equals the score of a hit returns that hit, and
\* the same search with the default threshold, which is above that score,
\* does not
C14_Witness ==
    \E ct \in CallTypes, text \in EntityTexts :
        \E tie \in TiesOf(idx, ct) :
            /\ \E h \in Resolvable(ct, HitsFor(ct, text, 2, tie)) : h.score = 60
            /\ \E i \in DOMAIN DoSearchSimilar(idx, recs, ent, ct, text, 2, 60,
                                               "none", tie) :
                   DoSearchSimilar(idx, recs, ent, ct, text, 2, 60, "none",
                                   tie)[i].similarity_score = 60
            /\ \A i \in DOMAIN DoSearchSimilar(idx, recs, ent, ct, text, 2,
                                               DefaultThreshold, "none", tie) :
                   DoSearchSimilar(idx, recs, ent, ct, text, 2, DefaultThreshold,
                                   "none", tie)[i].similarity_score # 60

\* C15: the results of search_similar are in order of score descending, and
\* of two results with the same score the one at the lower index position
\* comes first.
C15_ResultsAreOrdered ==
    \A ct \in CallTypes, text \in EntityTexts, kk \in Ks, thr \in Thresholds :
        \A tie \in TiesOf(idx, ct) :
            LET out == DoSearchSimilar(idx, recs, ent, ct, text, kk, thr,
                                       "none", tie)
            IN  \A i, j \in 1..Len(out) :
                    i < j =>
                        \/ out[i].similarity_score > out[j].similarity_score
                        \/ /\ out[i].similarity_score = out[j].similarity_score
                           /\ out[i].vector_index < out[j].vector_index

\* C16: search_similar returns no more than k results and no more results
\* than the index of the content type holds vectors, and returns the empty
\* list when that index is empty.
C16_AtMostKResults ==
    \A ct \in CallTypes, text \in Texts, kk \in Ks \cup {0, 5}, thr \in Thresholds :
        \A tie \in TiesOf(idx, ct) :
            LET out == DoSearchSimilar(idx, recs, ent, ct, text, kk, thr,
                                       "none", tie)
            IN  /\ Len(out) <= kk
                /\ Len(out) <= Size(idx, ct)
                /\ Size(idx, ct) = 0 => out = <<>>

\* one index holds two vectors with their rows, another is empty: a search
\* for one result returns one, a search for five returns two
C16_Witness ==
    \E ct, ct2 \in CallTypes :
        /\ Size(idx, ct) = 2
        /\ Size(idx, ct2) = 0
        /\ \A tie \in TiesOf(idx, ct) :
               /\ Len(DoSearchSimilar(idx, recs, ent, ct, "a", 1, 0, "none", tie)) = 1
               /\ Len(DoSearchSimilar(idx, recs, ent, ct, "a", 5, 0, "none", tie)) = 2

\* C17: add_vector with a text of white space only, or with a content
\* type whose index key is no key of self.indexes, raises and leaves the
\* indexes, the rows and the index files as they were.
C17_InvalidInputChangesNothing ==
    \A ct \in CallTypes \cup {UnknownType, "capabilities"}, oid \in ObjectIds,
       text \in Texts, f \in Faults :
        (text = " " \/ IndexKey(ct) \notin IndexKeys) =>
            LET o == DoAddVector(Here, ct, oid, text, f)
            IN  /\ ~o.ok
                /\ o.idx = idx
                /\ o.recs = recs
                /\ o.disk = disk

\* a store with a vector, its row and its file, on which add_vector with a
\* blank text and add_vector with an unknown content type are both refused
\* while the same call with a text and a known content type goes through
C17_Witness ==
    /\ \E r \in recs : disk[IndexKey(r.content_type)].file = "whole"
    /\ Total(idx) >= 1
    /\ ~DoAddVector(Here, "CAPABILITY", "u1", " ", "none").ok
    /\ ~DoAddVector(Here, UnknownType, "u1", "a", "none").ok
    /\ DoAddVector(Here, "CAPABILITY", "u1", "a", "none").ok

\* C18: when the embedding service fails during add_vector, the call raises,
\* the indexes hold the vectors they held, the rows are those from before the
\* call and the index files are as they were.
C18_EmbeddingFailureChangesNothing ==
    \A ct \in CallTypes, oid \in ObjectIds, text \in EntityTexts :
        LET o == DoAddVector(Here, ct, oid, text, "service")
        IN  /\ ~o.ok
            /\ o.idx = idx
            /\ o.recs = recs
            /\ o.disk = disk

\* a store with a vector, its row and its file, on which an add_vector would
\* append, move the object's row and write the files, but for the service
C18_Witness ==
    \E r \in recs :
        LET o == DoAddVector(Here, r.content_type, r.object_id, "b", "none")
        IN  /\ disk[IndexKey(r.content_type)].file = "whole"
            /\ o.ok /\ o.recs # recs /\ o.disk # disk
            /\ ~DoAddVector(Here, r.content_type, r.object_id, "b", "service").ok

\* C19: when the body of search_similar raises (the embedding service fails,
\* the query text is blank, the content type has no index, k is not
\* positive), the caller does not get the empty list, which is what a search
\* without a qualifying hit returns.
C19_SearchFailureIsReported ==
    \A ct \in FaultTypes \cup {UnknownType}, text \in Texts, kk \in Ks \cup {0},
       thr \in Thresholds, f \in {"none", "service"} :
        \A tie \in TiesOf(idx, ct) :
            SearchRaises(idx, ct, text, kk, f) =>
                DoSearchSimilar(idx, recs, ent, ct, text, kk, thr, f, tie) # <<>>

\* C20: whatever the index files are, _load_indexes gives every index key an
\* index: the vectors of its file when the file was written, no vectors when
\* there is no file; and the start of the process is always possible.
C20_StartupLoadsEveryIndex ==
    LET loaded == LoadIndexes(disk)
    IN  /\ DOMAIN loaded = IndexKeys
        /\ \A k \in IndexKeys :
               /\ disk[k].file = "none" => loaded[k] = <<>>
               /\ disk[k].file = "whole" => loaded[k] = disk[k].vectors
        /\ ENABLED Restart

\* the process was started on one written index file that holds a vector
\* and on missing files for the other indexes (a row points past the loaded
\* index, which only a start can bring about)
C20_Witness ==
    /\ idx = LoadIndexes(disk)
    /\ Dangling(idx, recs) # {}
    /\ \E k \in IndexKeys : disk[k].file = "whole" /\ Len(idx[k]) >= 1
    /\ \E k \in IndexKeys : disk[k].file = "none" /\ idx[k] = <<>>

C22_RemoveReportsDeletion ==
    \A ct \in FaultTypes, oid \in Uuids :
        LET o == DoRemoveVector(Here, ct, oid, "none")
        IN  /\ o.ok
            /\ o.ret = IF RowsOf(recs, ct, oid) # {} THEN "True" ELSE "False"

C24_LevelIsParentLevelPlusOne ==
    \A c \in CapabilityIds :
        caps[c].stored /\ caps[c].parent # NoParent =>
            caps[c].level = caps[caps[c].parent].level + 1

\* C25: after any sequence of CapabilityRecommendation saves, a stored
\* recommendation has applied_at set exactly when its status is APPLIED; and
\* setting the status of a stored PENDING recommendation to APPLIED and
\* saving it succeeds and leaves applied_at set.
C25_AppliedAtIffApplied ==
    \A r \in RecommendationIds :
        recos[r].stored =>
            /\ recos[r].applied_at # NoTime <=> recos[r].status = "APPLIED"
            /\ recos[r].status = "PENDING" =>
                   LET o == DoRecommendationSave(recos, r, "APPLIED",
                                                 recos[r].applied_at)
                   IN  /\ o.ok
                       /\ o.recos[r].status = "APPLIED"
                       /\ o.recos[r].applied_at # NoTime

\* one recommendation is stored APPLIED with its timestamp while another is
\* stored REJECTED without one
C25_Witness ==
    /\ recos["r1"] = [stored |-> TRUE, status |-> "APPLIED", applied_at |-> Now]
    /\ recos["r2"] = [stored |-> TRUE, status |-> "REJECTED", applied_at |-> NoTime]

\* C26: in every state reached by adds, updates, removes, rebuilds, failed
\* adds and restarts, the vector at the index position of a row is the
\* embedding of the text the row stores (a row whose position lies past the
\* end of the index is the matter of C27 and is left aside here).
C26_RowTextMatchesItsVector ==
    \A r \in recs :
        LET ixk == idx[IndexKey(r.content_type)]
        IN  r.vector_index < Len(ixk) =>
                ixk[r.vector_index + 1] = GenerateEmbedding(r.text_content, TRUE).vec

\* C27: in every reachable state, also after a restart that follows a save
\* failure that was only logged, a death of the process at any step of
\* add_vector, or an index file that could not be read, the position of
\* every row is smaller than the size of the in-memory index of its content
\* type.
C27_RowPositionsAreInsideIndex ==
    \A r \in recs : r.vector_index < Size(idx, r.content_type)

IsPrefix(a, b) == Len(a) <= Len(b) /\ SubSeq(b, 1, Len(a)) = a

\* the step is a rebuild_index of the content type whose index is k
RebuildOf(k) ==
    \E ct \in FaultTypes, txt \in [Uuids -> EntityTexts], f \in {"none", "save"} :
        /\ IndexKey(ct) = k
        /\ \E order \in Orders(Enumerated(ent, ct)) :
               RebuildIndex(ct, order, txt, f, 1)

\* the step ends the life of the process: it is stopped, or it dies in
\* add_vector, and is started again
LifetimeEnds ==
    \/ Restart
    \/ \E ct \in FaultTypes, oid \in ObjectIds, text \in Texts :
           \E f \in {"crash_append", "crash_upsert"} \cup CrashSaveFaults :
               AddVector(ct, oid, text, f)

\* C29: while the process lives, every step of add_vector, update_vector,
\* remove_vector, search_similar and get_index_stats, failed calls included,
\* leaves every index with the vectors it had at the positions they had and
\* at least as long; only a rebuild_index of the index's content type
\* replaces it.
C29_IndexOnlyGrows ==
    [][\/ \A k \in IndexKeys : IsPrefix(idx[k], idx'[k])
       \/ LifetimeEnds
       \/ \A k \in IndexKeys : IsPrefix(idx[k], idx'[k]) \/ RebuildOf(k)]_vars

\* two vectors were added and both rows were removed since: the index still
\* holds both vectors
C29_Witness ==
    /\ Len(idx["capabilities"]) = 2
    /\ idx["capabilities"][1] # idx["capabilities"][2]
    /\ recs = {}
    /\ disk["capabilities"] = WrittenFile(idx["capabilities"])

\* C30: rebuild_index called with a name that is none of CAPABILITY,
\* BUSINESS_GOAL and RECOMMENDATION raises and leaves every index and every
\* row as they were: no index is emptied and no index is created.
C30_UnknownRebuildIsRejected ==
    \A ct \in {UnknownType, IndexNamedType}, txt \in [Uuids -> EntityTexts] :
        LET o == DoRebuildIndex(Here, ct, <<>>, txt, "none", 1)
        IN  /\ ~o.ok
            /\ o.idx = idx
            /\ o.recs = recs
            /\ DOMAIN o.idx = IndexKeys
            /\ \A r \in o.recs :
                   Size(idx, r.content_type) > 0 => Size(o.idx, r.content_type) > 0

\* C31: when a rebuild_index of a content type has returned and the process
\* is started again, the loaded index of that content type holds as many
\* vectors as the rebuild enumerated objects, also when it enumerated none.
C31_RebuildIsDurable ==
    \A ct \in CallTypes, txt \in [Uuids -> EntityTexts] :
        \A order \in Orders(Enumerated(ent, ct)) :
            LET o == DoRebuildIndex(Here, ct, order, txt, "none", 1)
            IN  o.ok =>
                    Len(LoadIndexes(o.disk)[IndexKey(ct)])
                        = Cardinality(Enumerated(ent, ct))

\* C32: an update_vector that raises (the embedding service or the database
\* fails, or the new text is blank) leaves the row the content type and
\* object id had before the call, with its position and text.
C32_FailedUpdateKeepsRow ==
    \A ct \in FaultTypes, oid \in Uuids, text \in Texts :
        \A f \in {"none", "service", "db"} :
            LET o == DoUpdateVector(Here, ct, oid, text, f)
            IN  ~o.ok => RowsOf(o.recs, ct, oid) = RowsOf(recs, ct, oid)

\* C33: whatever rows the table holds, search_similar returns only object
\* ids whose entity exists.
C33_ResultsHaveEntities ==
    \A q \in EntityTexts, kk \in Ks, thr \in {0, DefaultThreshold} :
        \A tie \in TiesOf(idx, "CAPABILITY") :
            \A oid \in Found(DoSearchSimilar(idx, recs, ent, "CAPABILITY", q, kk,
                                             thr, "none", tie)) :
                ent["CAPABILITY"][oid] # NoEntity

\* one row belongs to a capability that exists and one to an id without a
\* capability, each with its vector in the index
C33_Witness ==
    /\ Len(idx["capabilities"]) = 2
    /\ \E r1, r2 \in recs :
           /\ r1.vector_index = 0 /\ r2.vector_index = 1
           /\ RelatedObject(ent, r1) = NoEntity
           /\ RelatedObject(ent, r2) # NoEntity

\* C34: when a business goal is soft-deleted (the destroy endpoint sets its
\* status to CLOSED and saves it), the goal has no row afterwards and no
\* search_similar on BUSINESS_GOAL returns it.
C34_ClosedGoalIsNotSearchable ==
    \A oid \in Uuids, text \in EntityTexts :
        ent["BUSINESS_GOAL"][oid] # NoEntity =>
            LET o      == DoPostSave(Here, "BUSINESS_GOAL", oid, "CLOSED", text, "none")
                closed == [ent EXCEPT !["BUSINESS_GOAL"][oid] = "CLOSED"]
            IN  /\ RowsOf(o.recs, "BUSINESS_GOAL", oid) = {}
                /\ \A q \in EntityTexts, kk \in Ks :
                       \A tie \in TiesOf(o.idx, "BUSINESS_GOAL") :
                           oid \notin Found(DoSearchSimilar(o.idx, o.recs, closed,
                                               "BUSINESS_GOAL", q, kk, 0, "none", tie))

\* the indexes, the rows and the index files
Stored == <<idx, recs, disk>>

\* a statement of search_similar, or a get_index_stats call
ReadStep ==
    \/ \E text \in EntityTexts, kk \in Ks, thr \in {0, DefaultThreshold} :
           SearchIndex(Searcher, "CAPABILITY", text, kk, thr)
    \/ SearchResolve(Searcher)
    \/ SearchReturn(Searcher)
    \/ GetIndexStats

\* C35: no statement of search_similar and no get_index_stats call changes
\* an index, a row or an index file; and get_index_stats reports for every
\* index the number of vectors the in-memory index holds.
C35_ReadsChangeNothing ==
    /\ [](/\ DOMAIN DoGetIndexStats(idx) = IndexKeys
          /\ \A k \in IndexKeys :
                 DoGetIndexStats(idx)[k].total_vectors = Len(idx[k]))
    /\ [][ReadStep => Stored' = Stored]_vars

\* a search has resolved its hits to a result over an index of two vectors
\* of which one has no row: the number of vectors and of rows differ
C35_Witness ==
    /\ Len(idx["capabilities"]) = 2
    /\ Cardinality(recs) = 1
    /\ thread[Searcher].pc = "search_done"
    /\ thread[Searcher].out # <<>>

\* the indexes of the other content types and the rows of the other content
\* types are in o what they are now
OthersUntouched(o, ct) ==
    /\ \A k \in IndexKeys \ {IndexKey(ct)} : o.idx[k] = idx[k]
    /\ \A other \in ContentTypes \ {ct} :
           RowsOfType(o.recs, other) = RowsOfType(recs, other)

\* C36: add_vector, update_vector, remove_vector and rebuild_index on one
\* content type, whether they return or raise, leave the in-memory indexes
\* and the rows of every other content type as they were.
C36_OtherCategoriesUntouched ==
    \A ct \in CallTypes :
        /\ \A oid \in ObjectIds, text \in Texts, f \in {"none", "service", "db", "save"} :
               /\ OthersUntouched(DoAddVector(Here, ct, oid, text, f), ct)
               /\ OthersUntouched(DoUpdateVector(Here, ct, oid, text, f), ct)
               /\ OthersUntouched(DoRemoveVector(Here, ct, oid, f), ct)
        /\ \A txt \in [Uuids -> EntityTexts], f \in {"none", "db"} :
               \A order \in Orders(Enumerated(ent, ct)) :
                   OthersUntouched(DoRebuildIndex(Here, ct, order, txt, f, 1), ct)

\* both content types have a row and a vector, and a business goal exists
\* for a rebuild to enumerate
C36_Witness ==
    /\ Len(idx["capabilities"]) >= 1
    /\ Len(idx["business_goals"]) >= 1
    /\ RowsOfType(recs, "CAPABILITY") # {}
    /\ RowsOfType(recs, "BUSINESS_GOAL") # {}
    /\ Enumerated(ent, "BUSINESS_GOAL") # {}

\* the capabilities reached from c by following stored parents at most n times
RECURSIVE AncestorsWithin(_, _, _)
AncestorsWithin(cs, c, n) ==
    IF n = 0 \/ cs[c].parent = NoParent THEN {}
    ELSE {cs[c].parent} \cup AncestorsWithin(cs, cs[c].parent, n - 1)

Ancestors(cs, c) == AncestorsWithin(cs, c, Cardinality(CapabilityIds))

\* C37: after any sequence of Capability saves, of which those that fail
\* validation write nothing, no stored capability is its own ancestor.
C37_NoCycleAmongCapabilities ==
    \A c \in CapabilityIds : caps[c].stored => c \notin Ancestors(caps, c)

\* a chain of three capabilities is stored, and saving its root with the
\* leaf as parent, or a capability with itself as parent, fails validation
C37_Witness ==
    /\ caps["k2"].parent = "k1"
    /\ caps["k3"].parent = "k2"
    /\ caps["k1"].stored /\ caps["k1"].parent = NoParent
    /\ ~DoCapabilitySave(caps, "k1", "k3").ok
    /\ ~DoCapabilitySave(caps, "k2", "k2").ok

\* C38: once a recommendation is stored as APPLIED or REJECTED, a request on
\* it that reaches its write, also one that began while the recommendation
\* was still PENDING, leaves the recommendation and every capability as they
\* are.
C38_SettledRecommendationIsFinal ==
    [][\A t \in Threads :
           (/\ thread[t].pc \in {"apply_checked", "reject_checked"}
            /\ thread'[t].pc = "idle"
            /\ recos[thread[t].reco].status \in {"APPLIED", "REJECTED"})
               => caps' = caps /\ recos' = recos]_vars

====
